---------------------------- MODULE Spec2Model ----------------------------
(***************************************************************************)
(* Model of src/src/Magnifier.vue: the interaction state of the magnifier  *)
(* (imgBounds, showZoom, relX/relY, mgOffsetX/Y), the computed lens style  *)
(* (mgStyle), the event handlers, and the lodash throttle/debounce         *)
(* wrappers the component builds around them.                              *)
(*                                                                         *)
(* Numbers.  JavaScript numbers are modelled as extended rationals         *)
(* [n, d]: d > 0 is the rational n/d in lowest terms, d = 0 is +Infinity   *)
(* (n = 1), -Infinity (n = -1) or NaN (n = 0).  Rounding of IEEE doubles   *)
(* is not modelled; division by zero and NaN propagation are.              *)
(*                                                                         *)
(* Window.  window.innerWidth, window.scrollX and window.scrollY are not    *)
(* state of the component: mgStyle reads them from the host when it is     *)
(* evaluated, so the computed values take the window as a parameter and    *)
(* the properties range over every window of Windows.                      *)
(*                                                                         *)
(* Time.  One tick is 1/TicksPerFrame of the throttle interval 1000/120 ms.*)
(* Each lodash wrapper keeps the age of its last call and last invocation  *)
(* (capped at its wait, beyond which lodash cannot tell ages apart) and    *)
(* the time left on its timer.  Timers never fire early; they may fire     *)
(* late, as host timers do.                                                *)
(***************************************************************************)
EXTENDS Integers, Sequences, FiniteSets, TLC

VARIABLES
    props,       \* the component's props (configuration), fixed per run
    isClient,    \* import.meta.client, fixed per run
    phase,       \* "setup" | "mounted" | "unmounted"
    img,         \* img.value is an element (TRUE) or null (FALSE)
    imgBounds,   \* imgBounds.value: Null or a rectangle
    showZoom,    \* showZoom.value
    mgOffsetX,   \* mgOffsetX.value
    mgOffsetY,   \* mgOffsetY.value
    relX,        \* relX.value
    relY,        \* relY.value
    listeners,   \* the window resize/scroll listeners are registered
    thMouse,     \* state of throttleOnMouseMove
    thTouch,     \* state of throttleOnTouchMove
    dbCalc,      \* state of calcImgBoundsDebounced
    pc,          \* 0: no handler running; k: onImageLoad is before its statement k
    loadLog,     \* the statements the current/last onImageLoad has executed
    last,        \* the last event handled and what its handler did
    sinceMouseRun,  \* ticks since onMouseMove last ran (capped at ThrottleWait)
    sinceTouchRun,  \* ticks since onTouchMove last ran (capped at ThrottleWait)
    sinceWindowEvent, \* ticks since the last resize/scroll heard (capped at DebounceWait)
    merged,      \* a resize/scroll was heard while an earlier one was awaiting its run
    dbRuns,      \* runs of the debounced calcImgBounds since the last resize/scroll heard
    fineLeft     \* sub-frame ticks still allowed (bounds the fine-grained clock)

vars == <<props, isClient, phase, img, imgBounds, showZoom, mgOffsetX, mgOffsetY,
          relX, relY, listeners, thMouse, thTouch, dbCalc, pc, loadLog,
          last, sinceMouseRun, sinceTouchRun, sinceWindowEvent, merged, dbRuns,
          fineLeft>>

engine == <<imgBounds, showZoom, mgOffsetX, mgOffsetY, relX, relY>>

\* what no handler of the image's events touches
fixed == <<props, isClient, phase, img, listeners>>

\* the debounce wrapper and the history kept about it
debounceVars == <<dbCalc, sinceWindowEvent, merged, dbRuns>>

-----------------------------------------------------------------------------
(* JavaScript numbers *)

Abs(i) == IF i < 0 THEN -i ELSE i

Sign(i) == IF i > 0 THEN 1 ELSE IF i < 0 THEN -1 ELSE 0

Min(a, b) == IF a <= b THEN a ELSE b

Max(a, b) == IF a >= b THEN a ELSE b

RECURSIVE Gcd(_, _)
Gcd(a, b) == IF b = 0 THEN a ELSE Gcd(b, a % b)

\* the number n/d, d >= 0, in canonical form
Norm(n, d) ==
    IF d = 0 THEN [n |-> Sign(n), d |-> 0]
    ELSE LET g == Gcd(Abs(n), d) IN [n |-> n \div g, d |-> d \div g]

Num(i) == [n |-> i, d |-> 1]

NaN == [n |-> 0, d |-> 0]

PosInf == [n |-> 1, d |-> 0]

NegInf == [n |-> -1, d |-> 0]

IsNaN(x) == x.d = 0 /\ x.n = 0

IsInf(x) == x.d = 0 /\ x.n # 0

IsFinite(x) == x.d > 0

\* a / b for integers a and b >= 0: x/0 is +-Infinity, 0/0 is NaN
Div(a, b) == Norm(a, b)

Mul(x, y) == Norm(x.n * y.n, x.d * y.d)

Add(x, y) ==
    IF IsInf(x) /\ IsInf(y) THEN (IF x.n = y.n THEN x ELSE NaN)
    ELSE Norm(x.n * y.d + y.n * x.d, x.d * y.d)

Neg(x) == [n |-> -x.n, d |-> x.d]

Sub(x, y) == Add(x, Neg(y))

\* x < y; every comparison with NaN is false
Lt(x, y) ==
    IF IsNaN(x) \/ IsNaN(y) THEN FALSE
    ELSE IF IsInf(x) /\ IsInf(y) THEN x.n < y.n
    ELSE x.n * y.d < y.n * x.d

Gt(x, y) == Lt(y, x)

Le(x, y) == ~IsNaN(x) /\ ~IsNaN(y) /\ (x = y \/ Lt(x, y))

Ge(x, y) == Le(y, x)

-----------------------------------------------------------------------------
(* Bounds of the model and constants of the program *)

TicksPerFrame == 2

MaxFineTicks == 2

FramesPerSecond == 120

MsPerSecond == 1000

DebounceMs == 200

\* fps = 1000 / 120 ms, in ticks
ThrottleWait == TicksPerFrame

\* 200 ms, in ticks
DebounceWait == (DebounceMs * FramesPerSecond * TicksPerFrame) \div MsPerSecond

\* null (of imgBounds.value)
Null == [null |-> TRUE]

\* no lens element is rendered
NoLens == [rendered |-> FALSE]

NoTimer == -1

-----------------------------------------------------------------------------
(* Configuration and the inputs the environment supplies *)

\* the defaults of the props declaration
DefaultProps ==
    [ src |-> "image.png", zoomImgSrc |-> "", zoomFactor |-> Norm(3, 2),
      mgWidth |-> 150, mgHeight |-> 150, mgBorderWidth |-> 2,
      mgShape |-> "circle", mgShowOverflow |-> TRUE,
      mgMouseOffsetX |-> 0, mgMouseOffsetY |-> 0,
      mgTouchOffsetX |-> -50, mgTouchOffsetY |-> -50,
      mgShow |-> TRUE, mgCornerBgColor |-> "#fff" ]

\* another configuration
OtherProps ==
    [DefaultProps EXCEPT !.zoomImgSrc = "zoom.png", !.mgHeight = 100,
                         !.mgMouseOffsetX = 10, !.mgMouseOffsetY = -10,
                         !.mgShow = FALSE]

\* the default configuration with a zoom image of its own
ZoomProps == [DefaultProps EXCEPT !.zoomImgSrc = "zoom.png", !.src = "small.png"]

Configs == { DefaultProps, OtherProps, ZoomProps }

\* what a run starts from: the props, and import.meta.client
Setups ==
    { [props |-> DefaultProps, isClient |-> TRUE],
      [props |-> OtherProps, isClient |-> FALSE],
      [props |-> ZoomProps, isClient |-> FALSE] }

\* the runs that explore the clock tick by tick
TimedSetups == { [props |-> DefaultProps, isClient |-> TRUE] }

\* rectangles getBoundingClientRect() returns for the image: 200 x 200, and
\* an image without content inside a border of 4px
Rects ==
    { [top |-> 100, left |-> 50, width |-> 200, height |-> 200],
      [top |-> 100, left |-> 50, width |-> 8, height |-> 8] }

TimedRects == { [top |-> 100, left |-> 50, width |-> 200, height |-> 200] }

\* window.innerWidth: narrower and wider than the lens
InnerWidths == { 100, 1000 }

\* window.scrollX, window.scrollY
Scrolls == { [x |-> 0, y |-> 0], [x |-> 30, y |-> 20] }

Windows ==
    { [innerWidth |-> w, scrollX |-> s.x, scrollY |-> s.y] :
        w \in InnerWidths, s \in Scrolls }

Ev(x, y, w, h, t) ==
    [clientX |-> x, clientY |-> y, clientWidth |-> w, clientHeight |-> h, touches |-> t]

\* mousemove events: e.clientX, e.clientY, e.target.clientWidth, e.target.clientHeight
\* (clientWidth and clientHeight leave out the border: 0 for an image without content)
MouseEvents ==
    { Ev(150, 200, 200, 200, 0),
      Ev(950, 350, 200, 200, 0),
      Ev(50, 104, 0, 0, 0) }

\* touchmove events: e.targetTouches[0].clientX/Y (when there is a touch) and the target's size
TouchEvents ==
    { Ev(150, 200, 200, 200, 1),
      Ev(290, 200, 200, 200, 1),
      Ev(10049, 200, 10000, 200, 1),
      Ev(50, 300, 200, 200, 1),
      Ev(54, 104, 0, 0, 1),
      Ev(0, 0, 200, 200, 0) }

TimedMouseEvents == { Ev(150, 200, 200, 200, 0) }

TimedTouchEvents == { Ev(150, 200, 200, 200, 1) }

-----------------------------------------------------------------------------
(* Computed values and the template *)

\* x of mgStyle
LensX(b, rx, ox, p) ==
    Add(Sub(Mul(rx, Num(b.width)), Norm(p.mgWidth, 2)), Num(ox))

\* faulty variant: y computed with the lens width
LensY_lensWidth(b, ry, oy, p) ==
    Add(Sub(Mul(ry, Num(b.height)), Norm(p.mgWidth, 2)), Num(oy))

\* y of mgStyle
LensY(b, ry, oy, p) ==
    Add(Sub(Mul(ry, Num(b.height)), Norm(p.mgHeight, 2)), Num(oy))

\* left before the two clamps
RawLeft(b, rx, ox, p, w) ==
    Add(Add(Num(b.left), LensX(b, rx, ox, p)), Num(w.scrollX))

\* if (left < window.scrollX) left = window.scrollX
ClampLeft(left, p, w) ==
    IF Lt(left, Num(w.scrollX)) THEN Num(w.scrollX) ELSE left

\* if (left + mgWidth > viewportWidth + window.scrollX) left = viewportWidth + window.scrollX - mgWidth
ClampRight(left, p, w) ==
    IF Gt(Add(left, Num(p.mgWidth)), Num(w.innerWidth + w.scrollX))
    THEN Num(w.innerWidth + w.scrollX - p.mgWidth)
    ELSE left

\* faulty variant: the clamps in the other order
ClampedLeft_leftLast(left, p, w) == ClampLeft(ClampRight(left, p, w), p, w)

\* the two clamps in the order mgStyle applies them
ClampedLeft(left, p, w) == ClampRight(ClampLeft(left, p, w), p, w)

\* faulty variant: the zoom image is ignored
BackgroundSrc_srcOnly(p) == p.src

\* props.zoomImgSrc || props.src
BackgroundSrc(p) == IF p.zoomImgSrc # "" THEN p.zoomImgSrc ELSE p.src

\* the object the computed mgStyle returns ("empty" stands for {}); numbers
\* are kept as numbers, the suffixes px and % are left to the field names
MgStyleOf(b, rx, ry, ox, oy, p, w) ==
    IF b = Null THEN [empty |-> TRUE]
    ELSE [ empty |-> FALSE,
           width |-> Num(p.mgWidth),
           height |-> Num(p.mgHeight),
           left |-> ClampedLeft(RawLeft(b, rx, ox, p, w), p, w),
           top |-> Add(Add(Num(b.top), LensY(b, ry, oy, p)), Num(w.scrollY)),
           backgroundImage |-> BackgroundSrc(p),
           backgroundPositionX |->
               [percent |-> Mul(rx, Num(100)),
                plusPx |-> Norm(p.mgWidth, 2),
                minusPx |-> Mul(rx, Num(p.mgWidth))],
           backgroundPositionY |->
               [percent |-> Mul(ry, Num(100)),
                plusPx |-> Norm(p.mgHeight, 2),
                minusPx |-> Mul(ry, Num(p.mgWidth))],
           backgroundSizeX |-> Mul(p.zoomFactor, Num(b.width)),
           backgroundSizeY |-> Mul(p.zoomFactor, Num(b.height)),
           borderWidth |-> Num(p.mgBorderWidth),
           backgroundColor |-> p.mgCornerBgColor ]

\* the computed mgStyle in the current state, evaluated in window w
mgStyle(w) == MgStyleOf(imgBounds, relX, relY, mgOffsetX, mgOffsetY, props, w)

\* faulty variant: the Teleport without its v-if
LensRendered_noShowZoom(sz, b, p) == b # Null /\ p.mgShow

\* the template's guards around the lens element:
\* <Teleport v-if="showZoom"> <div v-if="imgBounds && mgShow" :style="mgStyle">
LensRendered(sz, b, p) == sz /\ b # Null /\ p.mgShow

\* what the template renders for the lens in the current state, in window w
lensElement(w) ==
    IF LensRendered(showZoom, imgBounds, props) THEN mgStyle(w) ELSE NoLens

-----------------------------------------------------------------------------
(* lodash debounce(func, wait, options); throttle(func, wait, options) is   *)
(* debounce(func, wait, {leading: true, maxWait: wait, trailing}).          *)
(* A wrapper's state: timer (NoTimer, or the ticks left before timerExpired *)
(* may run), called (lastCallTime is defined), sinceCall and sinceInvoke    *)
(* (now - lastCallTime, now - lastInvokeTime, capped at wait), hasArgs      *)
(* (lastArgs is defined).  lastInvokeTime is read only under maxWait and    *)
(* lastArgs only under trailing: a wrapper without the option keeps the     *)
(* field at its initial value.                                              *)

NewWrapper(o) ==
    [timer |-> NoTimer, called |-> FALSE, sinceCall |-> o.wait,
     sinceInvoke |-> o.wait, hasArgs |-> FALSE]

\* faulty variant: the debounce also fires on the leading edge
DebounceOptions_leading ==
    [wait |-> DebounceWait, leading |-> TRUE, trailing |-> TRUE, maxing |-> FALSE]

\* debounce(calcImgBounds, 200)
DebounceOptions ==
    [wait |-> DebounceWait, leading |-> FALSE, trailing |-> TRUE, maxing |-> FALSE]

\* faulty variant: throttle with its default trailing edge
ThrottleOptions_trailing ==
    [wait |-> ThrottleWait, leading |-> TRUE, trailing |-> TRUE, maxing |-> TRUE]

\* throttle(handler, fps, { trailing: false })
ThrottleOptions ==
    [wait |-> ThrottleWait, leading |-> TRUE, trailing |-> FALSE, maxing |-> TRUE]

\* shouldInvoke(time) (the clock is taken to be monotonic)
ShouldInvoke(s, o) ==
    \/ ~s.called
    \/ s.sinceCall >= o.wait
    \/ (o.maxing /\ s.sinceInvoke >= o.wait)

\* remainingWait(time)
RemainingWait(s, o) ==
    IF o.maxing THEN Min(o.wait - s.sinceCall, o.wait - s.sinceInvoke)
    ELSE o.wait - s.sinceCall

\* invokeFunc(time): the wrapper's side of it; the caller runs func
InvokeFunc(s, o) ==
    [s EXCEPT !.hasArgs = FALSE, !.sinceInvoke = IF o.maxing THEN 0 ELSE @]

\* a call of the wrapper: the new state and whether func is invoked by it
WrapperCall(s, o) ==
    LET isInvoking == ShouldInvoke(s, o)
        s1 == [s EXCEPT !.hasArgs = o.trailing, !.called = TRUE, !.sinceCall = 0]
    IN  IF isInvoking /\ s.timer = NoTimer
        THEN \* leadingEdge
             LET s2 == [s1 EXCEPT !.sinceInvoke = IF o.maxing THEN 0 ELSE @,
                                  !.timer = o.wait]
             IN  IF o.leading THEN [s |-> InvokeFunc(s2, o), invoke |-> TRUE]
                 ELSE [s |-> s2, invoke |-> FALSE]
        ELSE IF isInvoking /\ o.maxing
        THEN [s |-> InvokeFunc([s1 EXCEPT !.timer = o.wait], o), invoke |-> TRUE]
        ELSE IF s.timer = NoTimer
        THEN [s |-> [s1 EXCEPT !.timer = o.wait], invoke |-> FALSE]
        ELSE [s |-> s1, invoke |-> FALSE]

\* timerExpired(): the new state and whether func is invoked (trailingEdge)
WrapperTimer(s, o) ==
    IF ShouldInvoke(s, o)
    THEN LET s1 == [s EXCEPT !.timer = NoTimer]
         IN  IF o.trailing /\ s.hasArgs THEN [s |-> InvokeFunc(s1, o), invoke |-> TRUE]
             ELSE [s |-> [s1 EXCEPT !.hasArgs = FALSE], invoke |-> FALSE]
    ELSE [s |-> [s EXCEPT !.timer = RemainingWait(s, o)], invoke |-> FALSE]

\* d ticks pass
WrapperTick(s, o, d) ==
    [s EXCEPT !.sinceCall = Min(@ + d, o.wait),
              !.sinceInvoke = IF o.maxing THEN Min(@ + d, o.wait) ELSE @,
              !.timer = IF @ = NoTimer THEN NoTimer ELSE Max(@ - d, 0)]

-----------------------------------------------------------------------------
(* The handlers of setup() *)

NoEvent == [event |-> FALSE]

Did(op, out, e) == [op |-> op, out |-> out, e |-> e]

\* faulty variant: measuring without an image element clears the bounds
calcImgBounds_clearing(r) == imgBounds' = IF img THEN r ELSE Null

\* calcImgBounds, r being what img.value.getBoundingClientRect() returns
calcImgBounds(r) == imgBounds' = IF img THEN r ELSE imgBounds

\* faulty variant: the measurement before the emit
onImageLoadSteps_measureFirst == <<"calcImgBounds", "emit">>

\* the statements of onImageLoad, in order
onImageLoadSteps == <<"emit", "calcImgBounds">>

\* one statement of onImageLoad
LoadStatement(k, r) ==
    /\ loadLog' = Append(IF k = 1 THEN <<>> ELSE loadLog, onImageLoadSteps[k])
    /\ IF onImageLoadSteps[k] = "calcImgBounds" THEN calcImgBounds(r)
       ELSE UNCHANGED imgBounds
    /\ UNCHANGED <<showZoom, mgOffsetX, mgOffsetY, relX, relY>>
    /\ last' = Did("load", onImageLoadSteps[k], NoEvent)
    /\ pc' = IF k = Len(onImageLoadSteps) THEN 0 ELSE k + 1

\* faulty variant: entering the image shows the lens
onMouseEnter_show(r) ==
    /\ calcImgBounds(r)
    /\ showZoom' = TRUE
    /\ UNCHANGED <<mgOffsetX, mgOffsetY, relX, relY>>

onMouseEnter(r) ==
    /\ calcImgBounds(r)
    /\ UNCHANGED <<showZoom, mgOffsetX, mgOffsetY, relX, relY>>

\* faulty variant: the lens is shown before the bounds are looked at
onMouseMove_showFirst(e) ==
    IF imgBounds = Null
    THEN showZoom' = TRUE /\ UNCHANGED <<imgBounds, mgOffsetX, mgOffsetY, relX, relY>>
    ELSE /\ mgOffsetX' = props.mgMouseOffsetX
         /\ mgOffsetY' = props.mgMouseOffsetY
         /\ relX' = Div(e.clientX - imgBounds.left, e.clientWidth)
         /\ relY' = Div(e.clientY - imgBounds.top, e.clientHeight)
         /\ showZoom' = TRUE
         /\ UNCHANGED imgBounds

\* faulty variant: the mouse handler with the in-bounds check of the touch handler
onMouseMove_inBoundsOnly(e) ==
    IF imgBounds = Null THEN UNCHANGED engine
    ELSE LET relXLocal == Div(e.clientX - imgBounds.left, e.clientWidth)
             relYLocal == Div(e.clientY - imgBounds.top, e.clientHeight)
         IN  IF /\ Ge(relXLocal, Num(0)) /\ Ge(relYLocal, Num(0))
                /\ Le(relXLocal, Num(1)) /\ Le(relYLocal, Num(1))
             THEN /\ mgOffsetX' = props.mgMouseOffsetX
                  /\ mgOffsetY' = props.mgMouseOffsetY
                  /\ relX' = relXLocal
                  /\ relY' = relYLocal
                  /\ showZoom' = TRUE
                  /\ UNCHANGED imgBounds
             ELSE /\ showZoom' = FALSE
                  /\ UNCHANGED <<imgBounds, mgOffsetX, mgOffsetY, relX, relY>>

onMouseMove(e) ==
    IF imgBounds = Null THEN UNCHANGED engine
    ELSE /\ mgOffsetX' = props.mgMouseOffsetX
         /\ mgOffsetY' = props.mgMouseOffsetY
         /\ relX' = Div(e.clientX - imgBounds.left, e.clientWidth)
         /\ relY' = Div(e.clientY - imgBounds.top, e.clientHeight)
         /\ showZoom' = TRUE
         /\ UNCHANGED imgBounds

\* faulty variant: leaving the image does not hide the lens
onMouseOut_noop == UNCHANGED engine

onMouseOut ==
    /\ showZoom' = FALSE
    /\ UNCHANGED <<imgBounds, mgOffsetX, mgOffsetY, relX, relY>>

onTouchStart(r) ==
    /\ calcImgBounds(r)
    /\ UNCHANGED <<showZoom, mgOffsetX, mgOffsetY, relX, relY>>

\* e.targetTouches[0] of an event without touches is undefined, and reading
\* its clientX throws a TypeError before anything is assigned
TouchThrows(e) == imgBounds # Null /\ e.touches = 0

\* faulty variant: the edges of the image count as outside
onTouchMove_strict(e) ==
    IF imgBounds = Null \/ TouchThrows(e) THEN UNCHANGED engine
    ELSE LET relXLocal == Div(e.clientX - imgBounds.left, e.clientWidth)
             relYLocal == Div(e.clientY - imgBounds.top, e.clientHeight)
         IN  IF /\ Gt(relXLocal, Num(0)) /\ Gt(relYLocal, Num(0))
                /\ Lt(relXLocal, Num(1)) /\ Lt(relYLocal, Num(1))
             THEN /\ mgOffsetX' = props.mgTouchOffsetX
                  /\ mgOffsetY' = props.mgTouchOffsetY
                  /\ relX' = relXLocal
                  /\ relY' = relYLocal
                  /\ showZoom' = TRUE
                  /\ UNCHANGED imgBounds
             ELSE /\ showZoom' = FALSE
                  /\ UNCHANGED <<imgBounds, mgOffsetX, mgOffsetY, relX, relY>>

onTouchMove(e) ==
    IF imgBounds = Null \/ TouchThrows(e) THEN UNCHANGED engine
    ELSE LET relXLocal == Div(e.clientX - imgBounds.left, e.clientWidth)
             relYLocal == Div(e.clientY - imgBounds.top, e.clientHeight)
         IN  IF /\ Ge(relXLocal, Num(0)) /\ Ge(relYLocal, Num(0))
                /\ Le(relXLocal, Num(1)) /\ Le(relYLocal, Num(1))
             THEN /\ mgOffsetX' = props.mgTouchOffsetX
                  /\ mgOffsetY' = props.mgTouchOffsetY
                  /\ relX' = relXLocal
                  /\ relY' = relYLocal
                  /\ showZoom' = TRUE
                  /\ UNCHANGED imgBounds
             ELSE /\ showZoom' = FALSE
                  /\ UNCHANGED <<imgBounds, mgOffsetX, mgOffsetY, relX, relY>>

onTouchEnd ==
    /\ showZoom' = FALSE
    /\ UNCHANGED <<imgBounds, mgOffsetX, mgOffsetY, relX, relY>>

Idle == pc = 0

Mounted == phase = "mounted" /\ Idle

-----------------------------------------------------------------------------
(* Actions: lifecycle *)

\* onMounted: the template ref is set; the listeners are added on the client
Mount ==
    /\ phase = "setup" /\ Idle
    /\ phase' = "mounted"
    /\ img' = TRUE
    /\ listeners' = isClient
    /\ last' = Did("mount", "run", NoEvent)
    /\ UNCHANGED <<props, isClient, engine, thMouse, thTouch, sinceMouseRun,
                   sinceTouchRun, debounceVars, pc, loadLog, fineLeft>>

\* faulty variant: teardown that leaves the window listeners registered
Unmount_keepListeners ==
    /\ Mounted
    /\ phase' = "unmounted"
    /\ img' = FALSE
    /\ listeners' = listeners
    /\ last' = Did("unmount", "run", NoEvent)
    /\ UNCHANGED <<props, isClient, engine, thMouse, thTouch, sinceMouseRun,
                   sinceTouchRun, debounceVars, pc, loadLog, fineLeft>>

\* onUnmounted: the listeners are removed; the template ref is null again
Unmount ==
    /\ Mounted
    /\ phase' = "unmounted"
    /\ img' = FALSE
    /\ listeners' = FALSE
    /\ last' = Did("unmount", "run", NoEvent)
    /\ UNCHANGED <<props, isClient, engine, thMouse, thTouch, sinceMouseRun,
                   sinceTouchRun, debounceVars, pc, loadLog, fineLeft>>

-----------------------------------------------------------------------------
(* Actions: events on the image *)

\* @load: the first statement of onImageLoad
ImageLoad(r) ==
    /\ Mounted
    /\ LoadStatement(1, r)
    /\ UNCHANGED <<fixed, thMouse, thTouch, sinceMouseRun, sinceTouchRun,
                   debounceVars, fineLeft>>

\* the next statement of the running onImageLoad
ImageLoadNext(r) ==
    /\ pc > 0
    /\ LoadStatement(pc, r)
    /\ UNCHANGED <<fixed, thMouse, thTouch, sinceMouseRun, sinceTouchRun,
                   debounceVars, fineLeft>>

\* @mouseenter
MouseEnter(r) ==
    /\ Mounted
    /\ onMouseEnter(r)
    /\ last' = Did("mouseenter", "run", NoEvent)
    /\ UNCHANGED <<fixed, thMouse, thTouch, sinceMouseRun, sinceTouchRun,
                   debounceVars, pc, loadLog, fineLeft>>

\* @mousemove="throttleOnMouseMove"
MouseMove(e) ==
    /\ Mounted
    /\ LET c == WrapperCall(thMouse, ThrottleOptions)
       IN  /\ thMouse' = c.s
           /\ IF c.invoke
              THEN /\ onMouseMove(e)
                   /\ sinceMouseRun' = 0
                   /\ last' = Did("mousemove",
                                  IF imgBounds = Null THEN "return" ELSE "run", e)
              ELSE /\ UNCHANGED <<engine, sinceMouseRun>>
                   /\ last' = Did("mousemove", "drop", NoEvent)
    /\ UNCHANGED <<fixed, thTouch, sinceTouchRun, debounceVars, pc, loadLog, fineLeft>>

\* @mouseout
MouseOut ==
    /\ Mounted
    /\ onMouseOut
    /\ last' = Did("mouseout", "run", NoEvent)
    /\ UNCHANGED <<fixed, thMouse, thTouch, sinceMouseRun, sinceTouchRun,
                   debounceVars, pc, loadLog, fineLeft>>

\* @touchstart.prevent
TouchStart(r) ==
    /\ Mounted
    /\ onTouchStart(r)
    /\ last' = Did("touchstart", "run", NoEvent)
    /\ UNCHANGED <<fixed, thMouse, thTouch, sinceMouseRun, sinceTouchRun,
                   debounceVars, pc, loadLog, fineLeft>>

\* @touchmove.prevent="throttleOnTouchMove"
TouchMove(e) ==
    /\ Mounted
    /\ LET c == WrapperCall(thTouch, ThrottleOptions)
       IN  /\ thTouch' = c.s
           /\ IF c.invoke
              THEN /\ onTouchMove(e)
                   /\ sinceTouchRun' = 0
                   /\ last' = Did("touchmove",
                                  IF imgBounds = Null THEN "return"
                                  ELSE IF TouchThrows(e) THEN "throw" ELSE "run", e)
              ELSE /\ UNCHANGED <<engine, sinceTouchRun>>
                   /\ last' = Did("touchmove", "drop", NoEvent)
    /\ UNCHANGED <<fixed, thMouse, sinceMouseRun, debounceVars, pc, loadLog, fineLeft>>

\* @touchend
TouchEnd ==
    /\ Mounted
    /\ onTouchEnd
    /\ last' = Did("touchend", "run", NoEvent)
    /\ UNCHANGED <<fixed, thMouse, thTouch, sinceMouseRun, sinceTouchRun,
                   debounceVars, pc, loadLog, fineLeft>>

-----------------------------------------------------------------------------
(* Actions: window events, timers, the clock *)

\* a resize or scroll event: calcImgBoundsDebounced is called if the
\* listeners are registered (rects: what the image may measure, should it run)
WindowEvent(op, rects) ==
    /\ phase # "setup" /\ Idle
    /\ IF listeners
       THEN LET c == WrapperCall(dbCalc, DebounceOptions)
            IN  /\ dbCalc' = c.s
                /\ sinceWindowEvent' = 0
                /\ merged' = (dbCalc.timer # NoTimer /\ dbRuns = 0)
                /\ IF c.invoke
                   THEN (\E r \in rects : calcImgBounds(r)) /\ dbRuns' = 1
                   ELSE UNCHANGED imgBounds /\ dbRuns' = 0
                /\ last' = Did(op, "heard", NoEvent)
       ELSE /\ UNCHANGED <<imgBounds, debounceVars>>
            /\ last' = Did(op, "unheard", NoEvent)
    /\ UNCHANGED <<fixed, showZoom, mgOffsetX, mgOffsetY, relX, relY, thMouse,
                   thTouch, sinceMouseRun, sinceTouchRun, pc, loadLog, fineLeft>>

\* window 'resize'
Resize(rects) == WindowEvent("resize", rects)

\* 'scroll', captured, so of the window or of any element
Scroll(rects) == WindowEvent("scroll", rects)

\* the timer of calcImgBoundsDebounced runs timerExpired
DebounceTimer(rects) ==
    /\ Idle
    /\ dbCalc.timer = 0
    /\ LET t == WrapperTimer(dbCalc, DebounceOptions)
       IN  /\ dbCalc' = t.s
           /\ IF t.invoke
              THEN /\ \E r \in rects : calcImgBounds(r)
                   /\ dbRuns' = Min(dbRuns + 1, 2)
                   /\ last' = Did("debounceTimer", "run", NoEvent)
              ELSE /\ UNCHANGED <<imgBounds, dbRuns>>
                   /\ last' = Did("debounceTimer",
                                  IF t.s.timer = NoTimer THEN "idle" ELSE "rearm", NoEvent)
    /\ UNCHANGED <<fixed, showZoom, mgOffsetX, mgOffsetY, relX, relY, thMouse,
                   thTouch, sinceMouseRun, sinceTouchRun, sinceWindowEvent, merged,
                   pc, loadLog, fineLeft>>

\* the timer of throttleOnMouseMove runs timerExpired; a trailing invocation
\* (there is none with trailing: false) would replay the last event
MouseThrottleTimer(evs) ==
    /\ Idle
    /\ thMouse.timer = 0
    /\ LET t == WrapperTimer(thMouse, ThrottleOptions)
       IN  /\ thMouse' = t.s
           /\ IF t.invoke
              THEN \E e \in evs :
                       /\ onMouseMove(e)
                       /\ sinceMouseRun' = 0
                       /\ last' = Did("mouseThrottleTimer", "run", e)
              ELSE /\ UNCHANGED <<engine, sinceMouseRun>>
                   /\ last' = Did("mouseThrottleTimer",
                                  IF t.s.timer = NoTimer THEN "idle" ELSE "rearm", NoEvent)
    /\ UNCHANGED <<fixed, thTouch, sinceTouchRun, debounceVars, pc, loadLog, fineLeft>>

\* the timer of throttleOnTouchMove runs timerExpired
TouchThrottleTimer(evs) ==
    /\ Idle
    /\ thTouch.timer = 0
    /\ LET t == WrapperTimer(thTouch, ThrottleOptions)
       IN  /\ thTouch' = t.s
           /\ IF t.invoke
              THEN \E e \in evs :
                       /\ onTouchMove(e)
                       /\ sinceTouchRun' = 0
                       /\ last' = Did("touchThrottleTimer", "run", e)
              ELSE /\ UNCHANGED <<engine, sinceTouchRun>>
                   /\ last' = Did("touchThrottleTimer",
                                  IF t.s.timer = NoTimer THEN "idle" ELSE "rearm", NoEvent)
    /\ UNCHANGED <<fixed, thMouse, sinceMouseRun, debounceVars, pc, loadLog, fineLeft>>

\* d ticks pass with no event handled; a step shorter than the throttle
\* interval is a fine step, of which a run has MaxFineTicks
Tick(d) ==
    /\ phase # "setup" /\ Idle
    /\ d < ThrottleWait => fineLeft > 0
    /\ fineLeft' = IF d < ThrottleWait THEN fineLeft - 1 ELSE fineLeft
    /\ thMouse' = WrapperTick(thMouse, ThrottleOptions, d)
    /\ thTouch' = WrapperTick(thTouch, ThrottleOptions, d)
    /\ dbCalc' = WrapperTick(dbCalc, DebounceOptions, d)
    /\ sinceMouseRun' = Min(sinceMouseRun + d, ThrottleWait)
    /\ sinceTouchRun' = Min(sinceTouchRun + d, ThrottleWait)
    /\ sinceWindowEvent' = Min(sinceWindowEvent + d, DebounceWait)
    /\ <<thMouse', thTouch', dbCalc'>> # <<thMouse, thTouch, dbCalc>>
    /\ last' = Did("tick", "run", NoEvent)
    /\ UNCHANGED <<fixed, engine, pc, loadLog, merged, dbRuns>>

-----------------------------------------------------------------------------
(* Specifications *)

\* the state setup() leaves
InitWith(setups) ==
    /\ \E su \in setups : props = su.props /\ isClient = su.isClient
    /\ phase = "setup"
    /\ img = FALSE
    /\ imgBounds = Null
    /\ showZoom = FALSE
    /\ mgOffsetX = 0
    /\ mgOffsetY = 0
    /\ relX = Num(0)
    /\ relY = Num(0)
    /\ listeners = FALSE
    /\ thMouse = NewWrapper(ThrottleOptions)
    /\ thTouch = NewWrapper(ThrottleOptions)
    /\ dbCalc = NewWrapper(DebounceOptions)
    /\ pc = 0
    /\ loadLog = <<>>
    /\ last = Did("setup", "run", NoEvent)
    /\ sinceMouseRun = ThrottleWait
    /\ sinceTouchRun = ThrottleWait
    /\ sinceWindowEvent = DebounceWait
    /\ merged = FALSE
    /\ dbRuns = 0
    /\ fineLeft = MaxFineTicks

\* the steps of the clock: whole debounce periods, or fine steps around them
CoarseSteps == { DebounceWait }

FineSteps == { 1, DebounceWait - 1, DebounceWait }

NextWith(rects, mevs, tevs, steps) ==
    \/ Mount
    \/ Unmount
    \/ \E r \in rects : ImageLoad(r)
    \/ \E r \in rects : ImageLoadNext(r)
    \/ \E r \in rects : MouseEnter(r)
    \/ \E e \in mevs : MouseMove(e)
    \/ MouseOut
    \/ \E r \in rects : TouchStart(r)
    \/ \E e \in tevs : TouchMove(e)
    \/ TouchEnd
    \/ Resize(rects)
    \/ Scroll(rects)
    \/ DebounceTimer(rects)
    \/ MouseThrottleTimer(mevs)
    \/ TouchThrottleTimer(tevs)
    \/ \E d \in steps : Tick(d)

Init == InitWith(Setups)

Next == NextWith(Rects, MouseEvents, TouchEvents, CoarseSteps)

\* every configuration, rectangle and event; the clock in whole debounce periods
Spec == Init /\ [][Next]_vars

InitTimed == InitWith(TimedSetups)

NextTimed == NextWith(TimedRects, TimedMouseEvents, TimedTouchEvents, FineSteps)

\* one configuration and few inputs; the clock in fine steps
SpecTimed == InitTimed /\ [][NextTimed]_vars

TypeOK ==
    /\ props \in Configs
    /\ phase \in {"setup", "mounted", "unmounted"}
    /\ img = (phase = "mounted")
    /\ imgBounds \in Rects \cup {Null}
    /\ showZoom \in BOOLEAN
    /\ pc \in 0..Len(onImageLoadSteps)
    /\ dbRuns \in 0..2
    /\ fineLeft \in 0..MaxFineTicks

-----------------------------------------------------------------------------
(* Properties *)

\* x lies in the closed interval [0, 1]
InUnitInterval(x) == IsFinite(x) /\ 0 <= x.n /\ x.n <= x.d

\* the relative coordinates of the event last handled
LastRelX == Div(last.e.clientX - imgBounds.left, last.e.clientWidth)

LastRelY == Div(last.e.clientY - imgBounds.top, last.e.clientHeight)

\* the windows at least as wide as the lens, and those narrower
WideWindows == { w \in Windows : w.innerWidth >= props.mgWidth }

NarrowWindows == { w \in Windows : props.mgWidth > w.innerWidth }

\* C1: whenever mgStyle is computed with bounds present in a window at
\* least as wide as the lens, scrollX <= left <= scrollX + innerWidth - mgWidth.
\* It fails: a relX of NaN (0/0 on an element of clientWidth 0) gives a
\* left of NaN, which neither clamp replaces.
C1_LeftWithinViewport ==
    \A w \in WideWindows :
        imgBounds # Null =>
            /\ Ge(mgStyle(w).left, Num(w.scrollX))
            /\ Le(mgStyle(w).left, Num(w.scrollX + w.innerWidth - props.mgWidth))

\* C2, as claimed: in a window narrower than the lens, left is the
\* left-clamped value scrollX.
C2_NarrowWindowLeftClamped ==
    \A w \in NarrowWindows :
        imgBounds # Null => mgStyle(w).left = Num(w.scrollX)

\* C2, amended: in a window narrower than the lens the right clamp, applied
\* last, decides: left is scrollX + innerWidth - mgWidth for every position
\* that is a number, and NaN for a position that is NaN.
C2_NarrowWindowRightClamped ==
    \A w \in NarrowWindows :
        imgBounds # Null =>
            mgStyle(w).left =
                IF IsNaN(RawLeft(imgBounds, relX, mgOffsetX, props, w)) THEN NaN
                ELSE Num(w.scrollX + w.innerWidth - props.mgWidth)

\* a narrow window in which the left clamp applied and the right clamp overrode it
C2_Witness ==
    /\ imgBounds # Null
    /\ showZoom
    /\ \E w \in NarrowWindows :
        /\ Lt(RawLeft(imgBounds, relX, mgOffsetX, props, w), Num(w.scrollX))
        /\ Lt(mgStyle(w).left, Num(w.scrollX))

\* C3: after onTouchMove has run with bounds present on an event carrying a
\* touch, the lens is shown, at the touch offsets and the event's relative
\* coordinates, if both coordinates lie in [0, 1], and hidden otherwise.
C3_TouchMoveVisibility ==
    (last.op = "touchmove" /\ last.out = "run") =>
        IF InUnitInterval(LastRelX) /\ InUnitInterval(LastRelY)
        THEN /\ showZoom
             /\ mgOffsetX = props.mgTouchOffsetX
             /\ mgOffsetY = props.mgTouchOffsetY
             /\ relX = LastRelX
             /\ relY = LastRelY
        ELSE ~showZoom

\* a touch at relX = 1.2 has hidden a lens that a touch at relX = 0.9999 had shown
C3_Witness ==
    /\ last.op = "touchmove" /\ last.out = "run"
    /\ LastRelX = Norm(12, 10)
    /\ ~showZoom
    /\ relX = Norm(9999, 10000)
    /\ mgOffsetX = props.mgTouchOffsetX

\* C4: after onMouseMove has run with bounds present the lens is shown
\* whatever the relative coordinates, the offsets are the mouse offsets and
\* relX, relY are (clientX - left) / clientWidth, (clientY - top) / clientHeight.
C4_MouseMoveShows ==
    (last.op = "mousemove" /\ last.out = "run") =>
        /\ showZoom
        /\ mgOffsetX = props.mgMouseOffsetX
        /\ mgOffsetY = props.mgMouseOffsetY
        /\ relX = LastRelX
        /\ relY = LastRelY

\* a mouse move outside the image rectangle has shown the lens
C4_Witness ==
    /\ last.op = "mousemove" /\ last.out = "run"
    /\ showZoom
    /\ ~InUnitInterval(relX)
    /\ IsFinite(relX)

\* C5: right after mouseout or touchend the lens is hidden.
C5_LeaveHides == last.op \in {"mouseout", "touchend"} => ~showZoom

\* a mouseout has hidden a lens that a mouse move outside [0, 1] had shown
C5_Witness ==
    /\ last.op = "mouseout"
    /\ ~showZoom
    /\ imgBounds # Null
    /\ ~InUnitInterval(relX)

\* a call of the throttled handler op made at age ticks after the handler
\* last ran is dropped exactly if age is below the throttle interval, and
\* the wrapper's timer never runs the handler
ThrottleStep(op, timerOp, age) ==
    /\ last'.op = op => (last'.out = "drop" <=> age < ThrottleWait)
    /\ last'.op = timerOp => last'.out # "run"

\* C6: the throttled handlers run on the leading edge only: a call less
\* than 1000/120 ms after the last run of the same handler is dropped and
\* never replayed by the timer, a call at or after it runs, so two runs of
\* the same handler are at least 1000/120 ms apart.
C6_ThrottleLeadingOnly ==
    [][ /\ ThrottleStep("mousemove", "mouseThrottleTimer", sinceMouseRun)
        /\ ThrottleStep("touchmove", "touchThrottleTimer", sinceTouchRun) ]_vars

\* a mouse move inside the interval was dropped, and the timer has since
\* expired without running the handler
C6_Witness ==
    /\ last.op = "mouseThrottleTimer" /\ last.out = "idle"
    /\ sinceMouseRun >= ThrottleWait
    /\ fineLeft < MaxFineTicks
    /\ ~showZoom /\ imgBounds # Null

\* C7: the debounced calcImgBounds runs only from its timer, only once 200 ms
\* have passed since the last resize/scroll heard, and once per burst: it has
\* not run while its timer is pending, it has run exactly once when the
\* timer is gone, and after 200 ms without an event a pending timer is due.
C7_DebounceOncePerBurst ==
    /\ dbRuns <= 1
    /\ (last.op \in {"resize", "scroll"} /\ last.out = "heard") => dbRuns = 0
    /\ (last.op = "debounceTimer" /\ last.out = "run") =>
           sinceWindowEvent >= DebounceWait
    /\ (last.op = "debounceTimer" /\ last.out = "rearm") =>
           sinceWindowEvent < DebounceWait
    /\ dbCalc.timer # NoTimer => dbRuns = 0
    /\ (dbCalc.called /\ dbCalc.timer = NoTimer) => dbRuns = 1
    /\ (dbCalc.timer # NoTimer /\ sinceWindowEvent >= DebounceWait) => dbCalc.timer = 0

\* a burst of several events has been measured once, by the timer
C7_Witness ==
    /\ last.op = "debounceTimer" /\ last.out = "run"
    /\ merged
    /\ dbRuns = 1
    /\ imgBounds # Null

\* C8: a mouse or touch move handled while no bounds are cached returns
\* at once and leaves imgBounds, showZoom, relX, relY and the offsets as they were.
C8_NoBoundsNoUpdate ==
    [][ last'.out = "return" => (imgBounds = Null /\ UNCHANGED engine) ]_vars

\* a move was handled before any measurement
C8_Witness ==
    /\ last.op \in {"mousemove", "touchmove"} /\ last.out = "return"
    /\ imgBounds = Null
    /\ ~showZoom

\* C9: a lens element with a style is rendered only while bounds are present
\* and the lens is shown, whatever the window.
C9_LensOnlyWhenShownAndMeasured ==
    \A w \in Windows :
        lensElement(w) # NoLens =>
            /\ imgBounds # Null
            /\ showZoom
            /\ ~lensElement(w).empty

\* a lens is rendered
C9_Witness ==
    /\ showZoom
    /\ \E w \in Windows : lensElement(w) # NoLens /\ IsFinite(lensElement(w).left)

\* C10, as claimed: in the load handler the measurement precedes the emit.
C10_MeasureBeforeEmit ==
    \A i \in 1..Len(loadLog) :
        loadLog[i] = "emit" => \E j \in 1..(i - 1) : loadLog[j] = "calcImgBounds"

\* C10, amended: every load handler emits exactly once, and emits before it
\* measures: the emit is its first statement, the measurement its second.
C10_EmitBeforeMeasure ==
    /\ loadLog \in {<<>>, <<"emit">>, <<"emit", "calcImgBounds">>}
    /\ pc # 0 => loadLog = <<"emit">>
    /\ (pc = 0 /\ loadLog # <<>>) => loadLog = <<"emit", "calcImgBounds">>
    /\ (last.op = "load" /\ pc = 0) => (last.out = "calcImgBounds" /\ imgBounds # Null)

\* the first load handler has emitted and not yet measured
C10_Witness ==
    /\ last.op = "load" /\ last.out = "emit"
    /\ loadLog = <<"emit">>
    /\ imgBounds = Null

\* C11: the resize and scroll listeners are registered exactly while the
\* component is mounted on the client, and a resize or scroll event after
\* teardown is not heard: it leaves the debounced wrapper as it was and
\* schedules nothing.
C11_ListenersWhileMounted ==
    /\ [](listeners <=> (phase = "mounted" /\ isClient))
    /\ [][ (phase = "unmounted" /\ last'.op \in {"resize", "scroll"}) =>
               /\ last'.out = "unheard"
               /\ UNCHANGED <<imgBounds, debounceVars>> ]_vars

\* on the client, a resize was heard while mounted and one after teardown was not
C11_Witness ==
    /\ isClient
    /\ phase = "unmounted"
    /\ last.op = "resize" /\ last.out = "unheard"
    /\ dbCalc.called
    /\ dbCalc.timer = NoTimer

\* the position the lens formula gives in window w, before any clamp
FormulaTop(w) ==
    Add(Add(Sub(Add(Num(imgBounds.top), Mul(relY, Num(imgBounds.height))),
                Norm(props.mgHeight, 2)),
            Num(mgOffsetY)),
        Num(w.scrollY))

FormulaLeft(w) ==
    Add(Add(Sub(Add(Num(imgBounds.left), Mul(relX, Num(imgBounds.width))),
                Norm(props.mgWidth, 2)),
            Num(mgOffsetX)),
        Num(w.scrollX))

\* the state of the worked example: bounds {top 100, left 50, 200 x 200}, the
\* pointer at (150, 200) on an element of 200 x 200, zero offsets, a lens of 150 x 150
ExampleState ==
    /\ imgBounds = [top |-> 100, left |-> 50, width |-> 200, height |-> 200]
    /\ last = Did("mousemove", "run", Ev(150, 200, 200, 200, 0))
    /\ props.mgWidth = 150 /\ props.mgHeight = 150
    /\ mgOffsetX = 0 /\ mgOffsetY = 0

ExampleWindow == [innerWidth |-> 1000, scrollX |-> 0, scrollY |-> 0]

\* with bounds present, top is bounds.top + relY * bounds.height -
\* mgHeight / 2 + offsetY + scrollY, never clamped, and left is bounds.left +
\* relX * bounds.width - mgWidth / 2 + offsetX + scrollX wherever that lies
\* within the window
FollowsFormula ==
    \A w \in Windows :
        imgBounds # Null =>
            /\ mgStyle(w).top = FormulaTop(w)
            /\ ( /\ Ge(FormulaLeft(w), Num(w.scrollX))
                 /\ Le(FormulaLeft(w), Num(w.scrollX + w.innerWidth - props.mgWidth)) )
                   => mgStyle(w).left = FormulaLeft(w)

\* C12, as claimed: the lens position follows the formula, and the worked
\* example gives relX = relY = 0.5, left = 125 and top = 125.
C12_ExampleLeft125 ==
    /\ FollowsFormula
    /\ ExampleState =>
           /\ relX = Norm(1, 2) /\ relY = Norm(1, 2)
           /\ mgStyle(ExampleWindow).left = Num(125)
           /\ mgStyle(ExampleWindow).top = Num(125)

\* C12, amended: the lens position follows the formula, and the worked
\* example gives relX = relY = 0.5, left = 50 + 0.5 * 200 - 75 = 75 and
\* top = 100 + 0.5 * 200 - 75 = 125.
C12_LensPosition ==
    /\ FollowsFormula
    /\ ExampleState =>
           /\ relX = Norm(1, 2) /\ relY = Norm(1, 2)
           /\ mgStyle(ExampleWindow).left = Num(75)
           /\ mgStyle(ExampleWindow).top = Num(125)

\* the worked example has happened and the lens is shown at (75, 125); in
\* the scrolled window it is at the formula's position too
C12_Witness ==
    /\ ExampleState
    /\ showZoom
    /\ mgStyle(ExampleWindow).left = Num(75)
    /\ mgStyle(ExampleWindow).top = Num(125)
    /\ \E w \in Windows : w.scrollY = 20 /\ mgStyle(w).top = Num(145)

\* C13: whenever mgStyle yields a style, its background image is src if
\* zoomImgSrc is empty and zoomImgSrc if it is not, in every window and
\* whatever the rest of the props and the state.
C13_BackgroundSource ==
    \A w \in Windows :
        imgBounds # Null =>
            /\ props.zoomImgSrc = "" => mgStyle(w).backgroundImage = props.src
            /\ props.zoomImgSrc # "" => mgStyle(w).backgroundImage = props.zoomImgSrc

\* a lens is rendered with the zoom image as its background
C13_Witness ==
    /\ props.zoomImgSrc # ""
    /\ props.zoomImgSrc # props.src
    /\ \E w \in Windows :
           /\ lensElement(w) # NoLens
           /\ lensElement(w).backgroundImage = "zoom.png"

\* C14: a touchmove carrying no touch is no update: the handler completes
\* without an error and leaves imgBounds, showZoom, relX, relY and the
\* offsets as they were.
\* It fails once bounds are cached: targetTouches[0] is undefined and reading
\* its clientX throws a TypeError (nothing has been assigned by then).
C14_ZeroTouchNoUpdate ==
    [][ (last'.op = "touchmove" /\ last'.out # "drop" /\ last'.e.touches = 0) =>
            /\ last'.out # "throw"
            /\ UNCHANGED engine ]_vars

\* C15: a mousemove or touchmove on an element of width or height zero
\* skips the update: relX and relY get no NaN or Infinity, and showZoom, the
\* offsets and the bounds stay as they were.
\* It fails: onMouseMove divides by clientWidth and clientHeight unguarded,
\* stores the quotient and shows the lens; onTouchMove hides the lens.
C15_ZeroSizeNoUpdate ==
    [][ ( /\ last'.op \in {"mousemove", "touchmove"}
          /\ last'.out = "run"
          /\ (last'.e.clientWidth = 0 \/ last'.e.clientHeight = 0) ) =>
            /\ UNCHANGED engine
            /\ IsFinite(relX') /\ IsFinite(relY') ]_vars

\* C16: after teardown the debounce timer does not run calcImgBounds.
\* It fails: onUnmounted removes the listeners but does not cancel the
\* debounced function, so a timer pending at teardown expires later and calls
\* calcImgBounds (which then finds img.value null).
C16_NoStaleDebounce ==
    ~(phase = "unmounted" /\ last.op = "debounceTimer" /\ last.out = "run")

\* the handlers that may change the visibility
VisibilityHandlers == {"mousemove", "mouseout", "touchmove", "touchend"}

\* C17: showZoom changes only in a step of the mousemove, mouseout,
\* touchmove or touchend handler; every other step (load, mouseenter,
\* touchstart, resize/scroll, the debounce timer, the throttle timers, the
\* passing of time, mount, teardown) leaves showZoom, relX, relY and the
\* offsets unchanged.
C17_VisibilityFrame ==
    [][ /\ showZoom' # showZoom => last'.op \in VisibilityHandlers
        /\ last'.op \notin VisibilityHandlers =>
               UNCHANGED <<showZoom, relX, relY, mgOffsetX, mgOffsetY>> ]_vars

\* with the lens shown, a debounced measurement has replaced the bounds and
\* left the lens shown
C17_Witness ==
    /\ last.op = "debounceTimer" /\ last.out = "run"
    /\ showZoom
    /\ imgBounds = [top |-> 100, left |-> 50, width |-> 8, height |-> 8]
    /\ relX = Norm(1, 2)

\* the step just taken has called calcImgBounds
Measured(l) ==
    \/ l.op \in {"mouseenter", "touchstart"}
    \/ l.op = "load" /\ l.out = "calcImgBounds"
    \/ l.op = "debounceTimer" /\ l.out = "run"

\* C18: calcImgBounds called without an image element keeps the cached
\* bounds, absent or not, as they were; called with the element it stores a
\* complete rectangle; so the bounds are always absent or a complete rectangle.
C18_MeasureWithoutElement ==
    [][ /\ Measured(last') =>
               IF img THEN imgBounds' \in Rects ELSE imgBounds' = imgBounds
        /\ imgBounds' \in Rects \cup {Null} ]_vars

\* after teardown the debounce timer has called calcImgBounds, and the
\* bounds measured before are still cached
C18_Witness ==
    /\ ~img
    /\ phase = "unmounted"
    /\ Measured(last)
    /\ imgBounds \in Rects

\* C19: a hidden lens is shown again only by a step in which a mousemove or
\* touchmove event arrives and its handler runs on that event; no expiry of
\* a throttle or debounce timer, and so no sample dropped earlier, shows it.
C19_HiddenUntilNextMove ==
    [][ (~showZoom /\ showZoom') =>
            /\ last'.op \in {"mousemove", "touchmove"}
            /\ last'.out = "run"
            /\ relX' = Div(last'.e.clientX - imgBounds.left, last'.e.clientWidth)
            /\ relY' = Div(last'.e.clientY - imgBounds.top, last'.e.clientHeight) ]_vars

\* a mouse move has shown the lens, a later one was dropped, the lens was
\* hidden by a leave, and the throttle timer has expired: the lens is still hidden
C19_Witness ==
    /\ last.op = "mouseThrottleTimer"
    /\ ~showZoom
    /\ imgBounds # Null
    /\ relX = Norm(1, 2)
    /\ mgOffsetX = props.mgMouseOffsetX
    /\ thMouse.called
    /\ thMouse.sinceCall < thMouse.sinceInvoke

\* C20: in every state a shown lens has bounds, and bounds once cached are
\* never absent again, whatever happens next.
C20_ShownHasBounds ==
    /\ [](showZoom => imgBounds # Null)
    /\ [][imgBounds # Null => imgBounds' # Null]_vars

\* the lens was shown at teardown, and a debounce timer expiring afterwards
\* has measured without an image element: shown still, the bounds still there
C20_Witness ==
    /\ showZoom
    /\ imgBounds # Null
    /\ phase = "unmounted"
    /\ last.op = "debounceTimer" /\ last.out = "run"

=============================================================================
